---- MODULE Spec2Model ----
(***************************************************************************)
(* The pet lifecycle state machine of fablelands-stellar: a pet record     *)
(* store, the decay engine, the action processor, the evolution resolver,  *)
(* the death/revival resolver, the achievement trigger evaluator and the   *)
(* orchestrator applyAction that composes them into one atomic transition. *)
(* The numbers come from PET_WORLD_FLOW.md; the contract that enforces the *)
(* machine is not part of the client sources, so the composition follows   *)
(* the documented step order.                                              *)
(***************************************************************************)
EXTENDS Integers, Sequences, FiniteSets, TLC

\* ------------------------------------------------------------------ bounds
\* Largest sequence number a request is made at.
MaxSeq == 9200
\* Feeds plus winning plays made on one pet.
MaxActions == 2
\* Largest value a counter is driven to in a long run of feeds and plays.
MaxCount == 12
\* Records persisted for one pet by requests made two at a time.
MaxCommits == 4
\* Rounds of TicTacToe played on one component.
MaxGames == 2
\* Icons of a MemoryGame deck (two cards each), and decks dealt to one
\* component.
MaxPairs == 2
MaxDeals == 2

\* --------------------------------------------------------------- constants
Egg == 0
Baby == 1
Teen == 2
Adult == 3

MaxStat == 100
InitHappiness == 100
InitHunger == 0
InitHealth == 100

HungerInterval == 30
HappinessInterval == 60
HealthInterval == 30

FeedHunger == 40
FeedHappiness == 15
PlayHappiness == 25

EggToBabyAge == 36
BabyToTeenAge == 84
TeenToAdultAge == 144
EvolveHappiness == 60
AdultHealth == 80

ReviveHealth == 50
ReviveHappiness == 30
ReviveHunger == 50

CountThreshold == 10
MatchDelay == 600
FlipBackDelay == 1000
WinDelay == 500

\* A transition that meets VersionConflict is reloaded and retried once.
MaxRetries == 1

StageNames == <<"Egg", "Baby", "Teen", "Adult">>

FirstPet == "first pet"
PerfectStats == "perfect stats"
FeedingStreak == "feeding streak"
ActivePlayer == "active player"
FirstEvolution == "first evolution"
SecondEvolution == "second evolution"
FinalEvolution == "final evolution"
SurvivedDeath == "survived death"

AchievementIds ==
    { FirstPet, PerfectStats, FeedingStreak, ActivePlayer,
      FirstEvolution, SecondEvolution, FinalEvolution, SurvivedDeath }

\* The order in which the rules of the evaluator are run.
RuleOrder ==
    << PerfectStats, FeedingStreak, ActivePlayer,
       FirstEvolution, SecondEvolution, FinalEvolution, SurvivedDeath >>

Kinds == {"feed", "play", "chatTouch", "forceUpdate", "revive"}

\* The two places a request on a pet comes from: the detail view and the
\* periodic sweep.
Callers == {"detail", "sweep"}

\* ------------------------------------------------------------------ inputs
\* Identifiers a caller may ask for; only those of MintIds are ever minted.
PetIds == {1, 2}
MintIds == {1}
MintSeqs == {0}
Ages == {0, 36, 84, 144, 3144, 3900, 6144, 9144}
StaleBy == {1}
\* Sequence numbers of the requests in a long run of feeds and plays.
CounterSeqs == {0, 30, 60}
\* Sequence numbers of the requests made by two callers at once.
ConcSeqs == {0, 36, 60, 90}
\* Sequence numbers of a schedule of forceUpdates, some closer together than
\* one decay interval.
ScheduleSeqs == {0, 10, 20, 30, 40, 60, 70, 90, 120}
\* Sequence numbers at which a sweep updates the pet.
SweepSeqs == {0, 36, 84, 144}
\* What the detail view asks for: feed, play and update.
DetailKinds == {"feed", "play", "forceUpdate"}

VARIABLES
    store,      \* pet record store: petId -> Pet, for the minted ids
    before,     \* the store as the last request found it
    call,       \* the last request: [op, petId, won, seq]
    result,     \* its outcome: "ok" or the error kind
    events,     \* the events it returned
    version,    \* petId -> number of records persisted for the pet
    txn,        \* caller -> its applyAction in progress on the versioned store
    hook,       \* the refs and the surroundings of one useAutoUpdate hook
    ttt,        \* the state and the pending timers of one TicTacToe component
    rps,        \* the state of one RockPaperScissors component
    mem,        \* the state and the pending timers of one MemoryGame component
    users       \* the users table and the getOrCreateUser calls in progress

vars ==
    <<store, before, call, result, events, version, txn, hook, ttt, rps, mem,
      users>>

\* The components of the user interface.
uiVars == <<ttt, rps, mem, users>>

\* What a request made directly on the store leaves alone.
clientVars == <<version, txn, hook, uiVars>>

\* ----------------------------------------------------------------- helpers
Min(a, b) == IF a < b THEN a ELSE b
Max(a, b) == IF a > b THEN a ELSE b

Range(s) == { s[i] : i \in 1..Len(s) }

EmptyStore == [i \in {} |-> 0]

Event(type, petId, seq, payload) ==
    [type |-> type, petId |-> petId, timestamp |-> seq, payload |-> payload]

\* -------------------------------------------------------------------- mint
NewPet(seq) ==
    [ stage |-> Egg,
      happiness |-> InitHappiness,
      hunger |-> InitHunger,
      health |-> InitHealth,
      birthSequence |-> seq,
      lastUpdateSequence |-> seq,
      isAlive |-> TRUE,
      feedCount |-> 0,
      playCount |-> 0,
      earnedAchievements |-> <<FirstPet>> ]

\* ------------------------------------------------------------ decay engine
\* Faulty variant: health goes down with every period, whatever the hunger.
StarvedPeriodsAlways(pet, elapsed) == elapsed \div HealthInterval

\* Whole periods of HealthInterval, out of elapsed, during which hunger stood
\* at its maximum: hunger takes (MaxStat - hunger) * HungerInterval to get there.
StarvedPeriods(pet, elapsed) ==
    Max(0, elapsed - (MaxStat - pet.hunger) * HungerInterval) \div HealthInterval

\* Faulty variant: the elapsed distance is measured from birth, so an interval that
\* was already processed is decayed again.
DecayFromBirth(pet, cur) ==
    LET elapsed == cur - pet.birthSequence IN
    IF pet.isAlive
    THEN [pet EXCEPT
            !.hunger = Min(MaxStat, pet.hunger + (elapsed \div HungerInterval)),
            !.happiness = Max(0, pet.happiness - (elapsed \div HappinessInterval)),
            !.health = Max(0, pet.health - StarvedPeriods(pet, elapsed)),
            !.lastUpdateSequence = cur]
    ELSE [pet EXCEPT !.lastUpdateSequence = cur]

\* Faulty variant: a dead pet goes on decaying.
DecayDeadToo(pet, cur) ==
    LET elapsed == cur - pet.lastUpdateSequence IN
    [pet EXCEPT
        !.hunger = Min(MaxStat, pet.hunger + (elapsed \div HungerInterval)),
        !.happiness = Max(0, pet.happiness - (elapsed \div HappinessInterval)),
        !.health = Max(0, pet.health - StarvedPeriods(pet, elapsed)),
        !.lastUpdateSequence = cur]

\* Faulty variant: the two intervals exchanged.
DecayIntervalsSwapped(pet, cur) ==
    LET elapsed == cur - pet.lastUpdateSequence IN
    IF pet.isAlive
    THEN [pet EXCEPT
            !.hunger = Min(MaxStat, pet.hunger + (elapsed \div HappinessInterval)),
            !.happiness = Max(0, pet.happiness - (elapsed \div HungerInterval)),
            !.health = Max(0, pet.health - StarvedPeriods(pet, elapsed)),
            !.lastUpdateSequence = cur]
    ELSE [pet EXCEPT !.lastUpdateSequence = cur]

\* Faulty variant: the sequence of the update is not recorded, so the next
\* update decays the same interval again.
DecayKeepsSequence(pet, cur) ==
    LET elapsed == cur - pet.lastUpdateSequence IN
    IF pet.isAlive
    THEN [pet EXCEPT
            !.hunger = Min(MaxStat, pet.hunger + (elapsed \div HungerInterval)),
            !.happiness = Max(0, pet.happiness - (elapsed \div HappinessInterval)),
            !.health = Max(0, pet.health - StarvedPeriods(pet, elapsed))]
    ELSE pet

Decay(pet, cur) ==
    LET elapsed == cur - pet.lastUpdateSequence IN
    IF pet.isAlive
    THEN [pet EXCEPT
            !.hunger = Min(MaxStat, pet.hunger + (elapsed \div HungerInterval)),
            !.happiness = Max(0, pet.happiness - (elapsed \div HappinessInterval)),
            !.health = Max(0, pet.health - StarvedPeriods(pet, elapsed)),
            !.lastUpdateSequence = cur]
    ELSE [pet EXCEPT !.lastUpdateSequence = cur]

\* -------------------------------------------------------- action processor
\* Faulty variant: the feed deltas without the saturating clamps.
FeedEffectsUnclamped(pet) ==
    [pet EXCEPT
        !.hunger = pet.hunger - FeedHunger,
        !.happiness = pet.happiness + FeedHappiness,
        !.feedCount = pet.feedCount + 1]

\* Faulty variant: the two feed deltas swapped.
FeedEffectsSwapped(pet) ==
    [pet EXCEPT
        !.hunger = Max(0, pet.hunger - FeedHappiness),
        !.happiness = Min(MaxStat, pet.happiness + FeedHunger),
        !.feedCount = pet.feedCount + 1]

FeedEffects(pet) ==
    [pet EXCEPT
        !.hunger = Max(0, pet.hunger - FeedHunger),
        !.happiness = Min(MaxStat, pet.happiness + FeedHappiness),
        !.feedCount = pet.feedCount + 1]

\* Faulty variant: the play reward is given whether or not the game was won.
PlayEffectsAlways(pet, won) ==
    [pet EXCEPT
        !.happiness = Min(MaxStat, pet.happiness + PlayHappiness),
        !.playCount = pet.playCount + 1]

PlayEffects(pet, won) ==
    IF won
    THEN [pet EXCEPT
            !.happiness = Min(MaxStat, pet.happiness + PlayHappiness),
            !.playCount = pet.playCount + 1]
    ELSE pet

ApplyDeltas(pet, kind, won) ==
    IF ~pet.isAlive THEN pet
    ELSE CASE kind = "feed" -> FeedEffects(pet)
           [] kind = "play" -> PlayEffects(pet, won)
           [] OTHER -> pet

\* ------------------------------------------------------ evolution resolver
\* Faulty variant: age measured from the last update instead of from birth.
AgeSinceUpdate(pet, cur) == cur - pet.lastUpdateSequence

Age(pet, cur) == cur - pet.birthSequence

\* Faulty variant: promotion by age alone, the stat conditions dropped.
EvolutionCheckAgeOnly(pet, cur) ==
    IF ~pet.isAlive THEN pet
    ELSE CASE pet.stage = Egg /\ Age(pet, cur) >= EggToBabyAge ->
                [pet EXCEPT !.stage = Baby]
           [] pet.stage = Baby /\ Age(pet, cur) >= BabyToTeenAge ->
                [pet EXCEPT !.stage = Teen]
           [] pet.stage = Teen /\ Age(pet, cur) >= TeenToAdultAge ->
                [pet EXCEPT !.stage = Adult]
           [] OTHER -> pet

\* Faulty variant: the stage conditions fall through, so one evaluation promotes
\* through every stage whose condition holds.
EvolutionCheckChained(pet, cur) ==
    IF ~pet.isAlive THEN pet
    ELSE LET s1 == IF pet.stage = Egg /\ Age(pet, cur) >= EggToBabyAge
                   THEN Baby ELSE pet.stage
             s2 == IF s1 = Baby /\ Age(pet, cur) >= BabyToTeenAge
                        /\ pet.happiness >= EvolveHappiness
                   THEN Teen ELSE s1
             s3 == IF s2 = Teen /\ Age(pet, cur) >= TeenToAdultAge
                        /\ pet.happiness >= EvolveHappiness
                        /\ pet.health >= AdultHealth
                   THEN Adult ELSE s2
         IN [pet EXCEPT !.stage = s3]

\* Faulty variant: a pet whose health has reached 0 is not promoted.
EvolutionCheckHealthyOnly(pet, cur) ==
    IF ~pet.isAlive \/ pet.health = 0 THEN pet
    ELSE CASE pet.stage = Egg /\ Age(pet, cur) >= EggToBabyAge ->
                [pet EXCEPT !.stage = Baby]
           [] pet.stage = Baby /\ Age(pet, cur) >= BabyToTeenAge
                /\ pet.happiness >= EvolveHappiness ->
                [pet EXCEPT !.stage = Teen]
           [] pet.stage = Teen /\ Age(pet, cur) >= TeenToAdultAge
                /\ pet.happiness >= EvolveHappiness
                /\ pet.health >= AdultHealth ->
                [pet EXCEPT !.stage = Adult]
           [] OTHER -> pet

EvolutionCheck(pet, cur) ==
    IF ~pet.isAlive THEN pet
    ELSE CASE pet.stage = Egg /\ Age(pet, cur) >= EggToBabyAge ->
                [pet EXCEPT !.stage = Baby]
           [] pet.stage = Baby /\ Age(pet, cur) >= BabyToTeenAge
                /\ pet.happiness >= EvolveHappiness ->
                [pet EXCEPT !.stage = Teen]
           [] pet.stage = Teen /\ Age(pet, cur) >= TeenToAdultAge
                /\ pet.happiness >= EvolveHappiness
                /\ pet.health >= AdultHealth ->
                [pet EXCEPT !.stage = Adult]
           [] OTHER -> pet

\* -------------------------------------------------- death/revival resolver
\* Faulty variant: death tested with < instead of =, which a clamped health never meets.
DeathCheckBelowZero(pet) ==
    IF pet.isAlive /\ pet.health < 0
    THEN [pet EXCEPT !.isAlive = FALSE]
    ELSE pet

DeathCheck(pet) ==
    IF pet.isAlive /\ pet.health = 0
    THEN [pet EXCEPT !.isAlive = FALSE]
    ELSE pet

\* Faulty variant: revival hands back a freshly hatched pet.
RevivalEffectsHatchAgain(pet) ==
    [pet EXCEPT
        !.stage = Egg,
        !.health = ReviveHealth,
        !.happiness = ReviveHappiness,
        !.hunger = ReviveHunger,
        !.isAlive = TRUE]

\* Faulty variant: revival also clears the two counters.
RevivalEffectsResetCounters(pet) ==
    [pet EXCEPT
        !.health = ReviveHealth,
        !.happiness = ReviveHappiness,
        !.hunger = ReviveHunger,
        !.feedCount = 0,
        !.playCount = 0,
        !.isAlive = TRUE]

\* Faulty variant: a revival restores full health.
RevivalEffectsFullHealth(pet) ==
    [pet EXCEPT
        !.health = MaxStat,
        !.happiness = ReviveHappiness,
        !.hunger = ReviveHunger,
        !.isAlive = TRUE]

RevivalEffects(pet) ==
    [pet EXCEPT
        !.health = ReviveHealth,
        !.happiness = ReviveHappiness,
        !.hunger = ReviveHunger,
        !.isAlive = TRUE]

RevivalCheck(pet, kind) ==
    IF kind = "revive" /\ ~pet.isAlive THEN RevivalEffects(pet) ELSE pet

\* ------------------------------------------- achievement trigger evaluator
\* Faulty variant: the counter rules fire once the counter has passed the threshold.
TriggeredPastThreshold(id, old, new, kind) ==
    CASE id = PerfectStats ->
            new.happiness = MaxStat /\ new.hunger = 0 /\ new.health = MaxStat
      [] id = FeedingStreak -> new.feedCount > CountThreshold
      [] id = ActivePlayer -> new.playCount > CountThreshold
      [] id = FirstEvolution -> old.stage = Egg /\ new.stage = Baby
      [] id = SecondEvolution -> old.stage = Baby /\ new.stage = Teen
      [] id = FinalEvolution -> old.stage = Teen /\ new.stage = Adult
      [] id = SurvivedDeath -> kind = "revive" /\ ~old.isAlive /\ new.isAlive
      [] OTHER -> FALSE

\* Faulty variant: the perfect-stats rule does not look at hunger.
TriggeredIgnoringHunger(id, old, new, kind) ==
    CASE id = PerfectStats -> new.happiness = MaxStat /\ new.health = MaxStat
      [] id = FeedingStreak -> new.feedCount >= CountThreshold
      [] id = ActivePlayer -> new.playCount >= CountThreshold
      [] id = FirstEvolution -> old.stage = Egg /\ new.stage = Baby
      [] id = SecondEvolution -> old.stage = Baby /\ new.stage = Teen
      [] id = FinalEvolution -> old.stage = Teen /\ new.stage = Adult
      [] id = SurvivedDeath -> kind = "revive" /\ ~old.isAlive /\ new.isAlive
      [] OTHER -> FALSE

\* Faulty variant: the second-evolution rule fires on every promotion.
TriggeredOnAnyPromotion(id, old, new, kind) ==
    CASE id = PerfectStats ->
            new.happiness = MaxStat /\ new.hunger = 0 /\ new.health = MaxStat
      [] id = FeedingStreak -> new.feedCount >= CountThreshold
      [] id = ActivePlayer -> new.playCount >= CountThreshold
      [] id = FirstEvolution -> old.stage = Egg /\ new.stage = Baby
      [] id = SecondEvolution -> new.stage > old.stage
      [] id = FinalEvolution -> old.stage = Teen /\ new.stage = Adult
      [] id = SurvivedDeath -> kind = "revive" /\ ~old.isAlive /\ new.isAlive
      [] OTHER -> FALSE

\* Does the rule of achievement id fire on the transition old -> new?
Triggered(id, old, new, kind) ==
    CASE id = PerfectStats ->
            new.happiness = MaxStat /\ new.hunger = 0 /\ new.health = MaxStat
      [] id = FeedingStreak -> new.feedCount >= CountThreshold
      [] id = ActivePlayer -> new.playCount >= CountThreshold
      [] id = FirstEvolution -> old.stage = Egg /\ new.stage = Baby
      [] id = SecondEvolution -> old.stage = Baby /\ new.stage = Teen
      [] id = FinalEvolution -> old.stage = Teen /\ new.stage = Adult
      [] id = SurvivedDeath -> kind = "revive" /\ ~old.isAlive /\ new.isAlive
      [] OTHER -> FALSE

\* Faulty variant: the rule is not skipped for an id that is already earned.
UnlocksAgain(id, earned, old, new, kind) ==
    Triggered(id, old, new, kind)

\* A rule is skipped when its id is already earned.
Unlocks(id, earned, old, new, kind) ==
    Triggered(id, old, new, kind) /\ id \notin Range(earned)

RECURSIVE Evaluate(_, _, _, _, _)
Evaluate(i, earned, old, new, kind) ==
    IF i > Len(RuleOrder) THEN earned
    ELSE Evaluate(i + 1,
                  IF Unlocks(RuleOrder[i], earned, old, new, kind)
                  THEN Append(earned, RuleOrder[i]) ELSE earned,
                  old, new, kind)

AchievementCheck(old, new, kind) ==
    [new EXCEPT
        !.earnedAchievements = Evaluate(1, new.earnedAchievements, old, new, kind)]

\* ------------------------------------------------------------ orchestrator
\* Faulty variant: the death check runs on the loaded record, before decay.
TransitionDeathCheckFirst(pet, kind, won, cur) ==
    LET checked == DeathCheck(pet)
        decayed == Decay(checked, cur)
        acted == ApplyDeltas(decayed, kind, won)
        evolved == EvolutionCheck(acted, cur)
        revived == RevivalCheck(evolved, kind)
    IN AchievementCheck(pet, revived, kind)

\* decay -> (if alive) action deltas -> evolution -> death -> revival -> achievements
Transition(pet, kind, won, cur) ==
    LET decayed == Decay(pet, cur)
        acted == ApplyDeltas(decayed, kind, won)
        evolved == EvolutionCheck(acted, cur)
        checked == DeathCheck(evolved)
        revived == RevivalCheck(checked, kind)
    IN AchievementCheck(pet, revived, kind)

\* Faulty variant: a sequence below the stored lastUpdateSequence is accepted.
OutcomeAnySequence(st, petId, kind, cur) ==
    IF petId \notin DOMAIN st THEN "NotFoundError"
    ELSE IF ~st[petId].isAlive /\ kind \in {"feed", "play", "chatTouch"}
         THEN "DeadPetError"
    ELSE IF st[petId].isAlive /\ kind = "revive" THEN "DeadPetError"
    ELSE "ok"

\* The error applyAction fails with, or "ok".
Outcome(st, petId, kind, cur) ==
    IF petId \notin DOMAIN st THEN "NotFoundError"
    ELSE IF cur < st[petId].lastUpdateSequence THEN "InvalidSequenceError"
    ELSE IF ~st[petId].isAlive /\ kind \in {"feed", "play", "chatTouch"}
         THEN "DeadPetError"
    ELSE IF st[petId].isAlive /\ kind = "revive" THEN "DeadPetError"
    ELSE "ok"

SubSeqFrom(s, n) == SubSeq(s, n + 1, Len(s))

EventList(old, new, petId, cur) ==
    LET stats == IF <<old.happiness, old.hunger, old.health>>
                    # <<new.happiness, new.hunger, new.health>>
                 THEN <<Event("statsChanged", petId, cur, "")>> ELSE <<>>
        evo == IF new.stage # old.stage
               THEN <<Event("evolved", petId, cur, StageNames[new.stage + 1])>>
               ELSE <<>>
        died == IF old.isAlive /\ ~new.isAlive
                THEN <<Event("died", petId, cur, "")>> ELSE <<>>
        rev == IF ~old.isAlive /\ new.isAlive
               THEN <<Event("revived", petId, cur, "")>> ELSE <<>>
        fresh == SubSeqFrom(new.earnedAchievements, Len(old.earnedAchievements))
        ach == [i \in 1..Len(fresh) |->
                  Event("achievementUnlocked", petId, cur, fresh[i])]
    IN stats \o evo \o died \o rev \o ach

\* Sequence numbers a request on petId is made at: the pet's birth plus one of
\* Ages, not before its last update, or a stale sequence before that update.
CurChoices(petId) ==
    IF petId \in DOMAIN store
    THEN LET pet == store[petId] IN
         { c \in { pet.birthSequence + a : a \in Ages } :
             c >= pet.lastUpdateSequence /\ c <= MaxSeq }
         \cup { c \in { pet.lastUpdateSequence - d : d \in StaleBy } : c >= 0 }
    ELSE {0}

\* Feeds and winning plays stop at MaxActions.
WithinBudget(petId, kind, won) ==
    IF petId \in DOMAIN store /\ (kind = "feed" \/ (kind = "play" /\ won))
    THEN store[petId].feedCount + store[petId].playCount < MaxActions
    ELSE TRUE

\* Faulty variant: the decayed record is persisted before the aliveness test, so a
\* request that fails with DeadPetError has already moved the pet's clock.
ApplyActionDecayPersisted(petId, kind, won, cur) ==
    LET out == Outcome(store, petId, kind, cur) IN
    /\ before' = store
    /\ call' = [op |-> kind, petId |-> petId, won |-> won, seq |-> cur]
    /\ result' = out
    /\ IF out = "ok"
       THEN LET new == Transition(store[petId], kind, won, cur) IN
            /\ store' = [store EXCEPT ![petId] = new]
            /\ events' = EventList(store[petId], new, petId, cur)
       ELSE /\ store' = IF out = "DeadPetError"
                        THEN [store EXCEPT ![petId] = Decay(store[petId], cur)]
                        ELSE store
            /\ events' = <<>>
    /\ UNCHANGED clientVars

ApplyAction(petId, kind, won, cur) ==
    LET out == Outcome(store, petId, kind, cur) IN
    /\ before' = store
    /\ call' = [op |-> kind, petId |-> petId, won |-> won, seq |-> cur]
    /\ result' = out
    /\ IF out = "ok"
       THEN LET new == Transition(store[petId], kind, won, cur) IN
            /\ store' = [store EXCEPT ![petId] = new]
            /\ events' = EventList(store[petId], new, petId, cur)
       ELSE /\ store' = store
            /\ events' = <<>>
    /\ UNCHANGED clientVars

\* ----------------------------------------------------------------- actions
Mint ==
    \E petId \in MintIds, seq \in MintSeqs :
        /\ petId \notin DOMAIN store
        /\ before' = store
        /\ call' = [op |-> "mint", petId |-> petId, won |-> FALSE, seq |-> seq]
        /\ result' = "ok"
        /\ store' = (petId :> NewPet(seq)) @@ store
        /\ events' = <<Event("achievementUnlocked", petId, seq, FirstPet)>>
        /\ UNCHANGED clientVars

Feed ==
    \E petId \in PetIds : \E cur \in CurChoices(petId) :
        /\ WithinBudget(petId, "feed", FALSE)
        /\ ApplyAction(petId, "feed", FALSE, cur)

Play ==
    \E petId \in PetIds, won \in BOOLEAN : \E cur \in CurChoices(petId) :
        /\ WithinBudget(petId, "play", won)
        /\ ApplyAction(petId, "play", won, cur)

ChatTouch ==
    \E petId \in PetIds : \E cur \in CurChoices(petId) :
        /\ WithinBudget(petId, "chatTouch", FALSE)
        /\ ApplyAction(petId, "chatTouch", FALSE, cur)

ForceUpdate ==
    \E petId \in PetIds : \E cur \in CurChoices(petId) :
        /\ WithinBudget(petId, "forceUpdate", FALSE)
        /\ ApplyAction(petId, "forceUpdate", FALSE, cur)

Revive ==
    \E petId \in PetIds : \E cur \in CurChoices(petId) :
        /\ WithinBudget(petId, "revive", FALSE)
        /\ ApplyAction(petId, "revive", FALSE, cur)

\* -------------------------------------------------------------- minigames
\* TicTacToe: the cells of the board are 0..8, "" is an empty cell.
Cells == 0..8

WinPatterns ==
    << <<0, 1, 2>>, <<3, 4, 5>>, <<6, 7, 8>>,
       <<0, 3, 6>>, <<1, 4, 7>>, <<2, 5, 8>>,
       <<0, 4, 8>>, <<2, 4, 6>> >>

EmptyBoard == [i \in Cells |-> ""]

\* The patterns, by index, that one player fills on board b.
FilledPatterns(b) ==
    { k \in 1..Len(WinPatterns) :
        /\ b[WinPatterns[k][1]] # ""
        /\ b[WinPatterns[k][1]] = b[WinPatterns[k][2]]
        /\ b[WinPatterns[k][1]] = b[WinPatterns[k][3]] }

FirstFilled(b) == CHOOSE k \in FilledPatterns(b) : \A j \in FilledPatterns(b) : k <= j

\* checkWinner: the winner and line of the first filled pattern, if any.
CheckWinner(b) ==
    IF FilledPatterns(b) = {}
    THEN [winner |-> "", line |-> <<>>]
    ELSE [winner |-> b[WinPatterns[FirstFilled(b)][1]],
          line |-> WinPatterns[FirstFilled(b)]]

IsBoardFull(b) == \A i \in Cells : b[i] # ""

GetEmptyCells(b) == { i \in Cells : b[i] = "" }

\* The cells the computer's random draw is taken from: the first and the
\* last empty cell.
ComputerDraws(b) ==
    { i \in GetEmptyCells(b) :
        \/ \A j \in GetEmptyCells(b) : i <= j
        \/ \A j \in GetEmptyCells(b) : i >= j }

\* The board holds three marks of player p in one of the eight lines.
HasLine(b, p) ==
    \E k \in 1..Len(WinPatterns) : \A j \in 1..3 : b[WinPatterns[k][j]] = p

NoClick == [turn |-> FALSE, status |-> "", cell |-> "", accepted |-> FALSE]

\* The component as useState creates it; no timer is pending. Besides the
\* state of the component: the rounds started and won, the calls of
\* onGameWin, and a note of the last event.
NewTicTacToe ==
    [open |-> FALSE,
     board |-> EmptyBoard, isPlayerTurn |-> TRUE, gameStatus |-> "playing",
     winningLine |-> <<>>, timers |-> <<>>,
     games |-> 1, wins |-> 0, reports |-> 0,
     last |-> "init", click |-> NoClick, lineAtReport |-> FALSE]

\* Faulty variant: handleCellClick does not test whether the cell is taken.
HandleCellClickAnyCell(t, index, random) ==
    IF ~t.isPlayerTurn \/ t.gameStatus # "playing" THEN t
    ELSE LET newBoard == [t.board EXCEPT ![index] = "X"] IN
         IF CheckWinner(newBoard).winner = "X"
         THEN [t EXCEPT !.board = newBoard, !.gameStatus = "won",
                        !.winningLine = CheckWinner(newBoard).line,
                        !.timers = Append(@, [kind |-> "win", board |-> newBoard,
                                              index |-> index])]
         ELSE IF IsBoardFull(newBoard)
         THEN [t EXCEPT !.board = newBoard, !.gameStatus = "draw"]
         ELSE [t EXCEPT !.board = newBoard, !.isPlayerTurn = FALSE,
                        !.timers = Append(@, [kind |-> "move", board |-> newBoard,
                                              index |-> random])]

\* handleCellClick with makeComputerMove up to its setTimeout; random is the
\* cell the computer draws.
HandleCellClick(t, index, random) ==
    IF ~t.isPlayerTurn \/ t.gameStatus # "playing" \/ t.board[index] # "" THEN t
    ELSE LET newBoard == [t.board EXCEPT ![index] = "X"] IN
         IF CheckWinner(newBoard).winner = "X"
         THEN [t EXCEPT !.board = newBoard, !.gameStatus = "won",
                        !.winningLine = CheckWinner(newBoard).line,
                        !.timers = Append(@, [kind |-> "win", board |-> newBoard,
                                              index |-> index])]
         ELSE IF IsBoardFull(newBoard)
         THEN [t EXCEPT !.board = newBoard, !.gameStatus = "draw"]
         ELSE [t EXCEPT !.board = newBoard, !.isPlayerTurn = FALSE,
                        !.timers = Append(@, [kind |-> "move", board |-> newBoard,
                                              index |-> random])]

\* The callback of makeComputerMove's setTimeout, on the board it captured.
ComputerMoves(t, timer) ==
    LET newBoard == [timer.board EXCEPT ![timer.index] = "O"] IN
    IF CheckWinner(newBoard).winner = "O"
    THEN [t EXCEPT !.board = newBoard, !.gameStatus = "lost",
                   !.winningLine = CheckWinner(newBoard).line]
    ELSE IF IsBoardFull(newBoard)
    THEN [t EXCEPT !.board = newBoard, !.gameStatus = "draw"]
    ELSE [t EXCEPT !.board = newBoard, !.isPlayerTurn = TRUE]

\* RockPaperScissors: "" is null.
Choices == {"rock", "paper", "scissors"}

DetermineWinner(player, computer) ==
    IF player = computer THEN "draw"
    ELSE IF \/ player = "rock" /\ computer = "scissors"
            \/ player = "paper" /\ computer = "rock"
            \/ player = "scissors" /\ computer = "paper"
    THEN "win"
    ELSE "lose"

NewRps ==
    [open |-> FALSE, playerChoice |-> "", computerChoice |-> "", result |-> "",
     last |-> "init"]

\* MemoryGame: a deck holds two cards of each icon; cards are addressed by
\* their position in the shuffled deck. The move counter, which is only
\* displayed, is left out.
Icons == 1..MaxPairs

Positions == 0..(2 * MaxPairs - 1)

\* The decks shuffleArray can return: every order of the card pairs.
Decks ==
    { d \in [Positions -> Icons] :
        \A icon \in Icons : Cardinality({ i \in Positions : d[i] = icon }) = 2 }

DealCards(d) ==
    [i \in Positions |-> [icon |-> d[i], isFlipped |-> FALSE, isMatched |-> FALSE]]

\* MemoryGame before its first effect has dealt the cards. timers holds the
\* pending setTimeout callbacks in the order they were set; deals, reports,
\* last, dealOfTimer and wonAtReport are notes of what has happened.
NewMemoryGame ==
    [open |-> FALSE, cards |-> <<>>, flippedCards |-> <<>>, matchedPairs |-> 0,
     isChecking |-> FALSE, timers |-> <<>>, deals |-> 0, reports |-> 0,
     last |-> "init", dealOfTimer |-> 0, wonAtReport |-> FALSE]

\* initializeGame with the deck the shuffle returned; pending timers stay.
InitializeGame(m, d) ==
    [m EXCEPT !.cards = DealCards(d), !.flippedCards = <<>>,
              !.matchedPairs = 0, !.isChecking = FALSE]

\* handleCardClick: the second card of a selection starts the check timer.
HandleCardClick(m, cardId) ==
    IF \/ m.isChecking
       \/ cardId \in Range(m.flippedCards)
       \/ m.cards[cardId].isMatched
       \/ Len(m.flippedCards) >= 2
    THEN m
    ELSE LET newFlippedCards == Append(m.flippedCards, cardId)
             shown == [m EXCEPT !.flippedCards = newFlippedCards,
                                !.cards[cardId].isFlipped = TRUE]
         IN IF Len(newFlippedCards) = 2
            THEN LET firstId == newFlippedCards[1]
                     secondId == newFlippedCards[2]
                 IN [shown EXCEPT
                        !.isChecking = TRUE,
                        !.timers = Append(@,
                            [kind |-> IF m.cards[firstId].icon = m.cards[secondId].icon
                                      THEN "match" ELSE "flipback",
                             firstId |-> firstId, secondId |-> secondId,
                             deal |-> m.deals])]
            ELSE shown

\* The callback of the 600 ms timer of a match.
MatchTimer(m, t) ==
    LET newMatched == m.matchedPairs + 1 IN
    [m EXCEPT !.cards[t.firstId].isMatched = TRUE,
              !.cards[t.secondId].isMatched = TRUE,
              !.flippedCards = <<>>,
              !.isChecking = FALSE,
              !.matchedPairs = newMatched,
              !.timers = IF newMatched = MaxPairs
                         THEN Append(@, [kind |-> "win", firstId |-> t.firstId,
                                         secondId |-> t.secondId, deal |-> m.deals])
                         ELSE @]

\* The callback of the 1000 ms timer of a mismatch.
FlipBackTimer(m, t) ==
    [m EXCEPT !.cards[t.firstId].isFlipped = FALSE,
              !.cards[t.secondId].isFlipped = FALSE,
              !.flippedCards = <<>>,
              !.isChecking = FALSE]

\* The delay of each kind of timer, in milliseconds.
Delay(kind) ==
    CASE kind = "match" -> MatchDelay
      [] kind = "flipback" -> FlipBackDelay
      [] OTHER -> WinDelay

\* A pending timer can be the next to fire unless one set before it has a
\* delay that is not longer.
CanFire(timers, i) ==
    \A j \in 1..(i - 1) : Delay(timers[j].kind) > Delay(timers[i].kind)

Without(timers, i) ==
    SubSeq(timers, 1, i - 1) \o SubSeq(timers, i + 1, Len(timers))

\* Every card of the deck is marked matched.
AllMatched(m) == \A i \in DOMAIN m.cards : m.cards[i].isMatched

\* ------------------------------------------------------------ user records
\* The components that mount useSupabaseUser, and the wallet addresses.
Components == {1, 2, 3}

Wallets == {"GA", "GB"}

\* A component whose effect has not called getOrCreateUser.
IdleCall == [pc |-> "idle", wallet |-> "", ret |-> 0]

\* The rows of the users table hold the wallet address; the position of a row
\* is the user's id. unique: the table rejects a second row for an address.
NewUsers ==
    [rows |-> <<>>, unique |-> FALSE, calls |-> [c \in Components |-> IdleCall]]

\* The ids of the rows with this wallet address.
Matching(rows, walletAddress) ==
    { i \in 1..Len(rows) : rows[i] = walletAddress }

\* select ... eq(wallet_address) .single(): the row when there is exactly
\* one, else an error and no data (0).
SelectSingle(rows, walletAddress) ==
    IF Cardinality(Matching(rows, walletAddress)) = 1
    THEN CHOOSE i \in Matching(rows, walletAddress) : TRUE
    ELSE 0

\* insert({wallet_address}).select().single(): the new row, or an error and
\* no data when the table rejects the duplicate.
InsertUser(u, walletAddress) ==
    IF u.unique /\ Matching(u.rows, walletAddress) # {}
    THEN [rows |-> u.rows, data |-> 0]
    ELSE [rows |-> Append(u.rows, walletAddress), data |-> Len(u.rows) + 1]

\* No game is open, no user is loaded.
UiInit ==
    /\ ttt = NewTicTacToe
    /\ rps = NewRps
    /\ mem = NewMemoryGame
    /\ users = NewUsers

\* No request has been made yet.
NoCall == [op |-> "none", petId |-> 0, won |-> FALSE, seq |-> 0]

\* A caller with no applyAction in progress.
IdleTxn ==
    [pc |-> "idle", kind |-> "none", won |-> FALSE, seq |-> 0,
     ver |-> 0, new |-> <<>>, attempts |-> 0, outcome |-> "none"]

\* The hook before its effect has run, for a given configuration.
NewHook(secretKey, runOnMount) ==
    [secretKey |-> secretKey, runOnMount |-> runOnMount,
     effect |-> FALSE, interval |-> FALSE,
     isRunning |-> FALSE, hasRunOnce |-> FALSE,
     hidden |-> FALSE, inFlight |-> 0,
     last |-> "init", performed |-> FALSE, started |-> FALSE,
     saw |-> [hidden |-> FALSE, running |-> FALSE, inFlight |-> 0]]

Init ==
    /\ store = EmptyStore
    /\ before = EmptyStore
    /\ call = NoCall
    /\ result = "ok"
    /\ events = <<>>
    /\ version = EmptyStore
    /\ txn = [c \in Callers |-> IdleTxn]
    /\ hook = NewHook(FALSE, FALSE)
    /\ UiInit

Next == Mint \/ Feed \/ Play \/ ChatTouch \/ ForceUpdate \/ Revive

Spec == Init /\ [][Next]_vars

\* ------------------------------------------------- long runs of feeds/plays
\* One pet is fed and played with until each counter stands at MaxCount, at
\* the sequence numbers of CounterSeqs, where it neither evolves nor starves.
CounterCur(petId) ==
    IF petId \in DOMAIN store
    THEN { c \in CounterSeqs : c >= store[petId].lastUpdateSequence }
    ELSE {}

CountedFeed ==
    \E petId \in MintIds : \E cur \in CounterCur(petId) :
        /\ store[petId].feedCount < MaxCount
        /\ ApplyAction(petId, "feed", FALSE, cur)

CountedPlay ==
    \E petId \in MintIds, won \in BOOLEAN : \E cur \in CounterCur(petId) :
        /\ won => store[petId].playCount < MaxCount
        /\ ApplyAction(petId, "play", won, cur)

CounterNext == Mint \/ CountedFeed \/ CountedPlay

CounterSpec == Init /\ [][CounterNext]_vars

\* ------------------------------------------------ schedules of forceUpdates
\* A pet that is only ever force-updated, as the periodic sweep does, at
\* sequences that need not be a whole decay interval apart.
ScheduledUpdate ==
    \E petId \in MintIds : \E cur \in ScheduleSeqs :
        /\ petId \in DOMAIN store
        /\ cur >= store[petId].lastUpdateSequence
        /\ ApplyAction(petId, "forceUpdate", FALSE, cur)

ScheduleNext == Mint \/ ScheduledUpdate

ScheduleSpec == Init /\ [][ScheduleNext]_vars

\* ------------------------------------- two callers on the versioned store
\* applyAction as a client of the pet store: get the record and its version,
\* compute the transition, put it with the version that was read; on
\* VersionConflict reload and run the whole transition again.
ConcPet == CHOOSE petId \in MintIds : TRUE

BeginTxn(kind, won, seq) ==
    [IdleTxn EXCEPT !.pc = "load", !.kind = kind, !.won = won, !.seq = seq]

\* Faulty variant: put takes any expectedVersion.
AcceptsAnyVersion(petId, expectedVersion) == TRUE

\* put(petId, Pet, expectedVersion) succeeds when the version is current.
Accepts(petId, expectedVersion) == version[petId] = expectedVersion

\* Both callers have a request on the same pet outstanding: a detail-view
\* action and the forceUpdate of the sweep, each with the sequence it read.
StartRound ==
    /\ \A c \in Callers : txn[c].pc \in {"idle", "done"}
    /\ version[ConcPet] + 2 <= MaxCommits
    /\ \E kind \in DetailKinds, won \in BOOLEAN, s1 \in ConcSeqs, s2 \in ConcSeqs :
          /\ won => kind = "play"
          /\ WithinBudget(ConcPet, kind, won)
          /\ txn' = [c \in Callers |->
                        IF c = "detail" THEN BeginTxn(kind, won, s1)
                        ELSE BeginTxn("forceUpdate", FALSE, s2)]
    /\ before' = store
    /\ UNCHANGED <<store, call, result, events, version, hook, uiVars>>

\* get(petId), the failure tests and the transition on the record read.
Load(c) ==
    LET t == txn[c]
        out == Outcome(store, ConcPet, t.kind, t.seq) IN
    /\ t.pc = "load"
    /\ txn' = [txn EXCEPT ![c] =
                 IF out = "ok"
                 THEN [t EXCEPT !.pc = "put",
                                !.ver = version[ConcPet],
                                !.new = Transition(store[ConcPet], t.kind, t.won, t.seq)]
                 ELSE [t EXCEPT !.pc = "done", !.outcome = out]]
    /\ UNCHANGED <<store, before, call, result, events, version, hook, uiVars>>

\* put(petId, new, expectedVersion): persist, or reload after VersionConflict.
Put(c) ==
    LET t == txn[c] IN
    /\ t.pc = "put"
    /\ IF Accepts(ConcPet, t.ver)
       THEN /\ store' = [store EXCEPT ![ConcPet] = t.new]
            /\ version' = [version EXCEPT ![ConcPet] = @ + 1]
            /\ txn' = [txn EXCEPT ![c] =
                         [t EXCEPT !.pc = "done", !.outcome = "ok", !.new = <<>>]]
       ELSE /\ txn' = [txn EXCEPT ![c] =
                         IF t.attempts < MaxRetries
                         THEN [t EXCEPT !.pc = "load", !.new = <<>>,
                                        !.attempts = @ + 1]
                         ELSE [t EXCEPT !.pc = "done", !.new = <<>>,
                                        !.outcome = "VersionConflict"]]
            /\ UNCHANGED <<store, version>>
    /\ UNCHANGED <<before, call, result, events, hook, uiVars>>

\* The store after one mint.
ConcInit ==
    /\ store = (ConcPet :> NewPet(0))
    /\ before = store
    /\ call = NoCall
    /\ result = "ok"
    /\ events = <<>>
    /\ version = (ConcPet :> 0)
    /\ txn = [c \in Callers |-> IdleTxn]
    /\ hook = NewHook(FALSE, FALSE)
    /\ UiInit

ConcNext == StartRound \/ \E c \in Callers : Load(c) \/ Put(c)

ConcSpec == ConcInit /\ [][ConcNext]_vars

\* ------------------------------------------------------ useAutoUpdate hook
\* One hook instance: its refs survive a re-run of the effect. The sources
\* hold two versions of the hook, one of which also runs performUpdate when
\* the effect starts (runOnMount).
NothingSeen == [hidden |-> FALSE, running |-> FALSE, inFlight |-> 0]

\* Faulty variant: performUpdate without the test of isRunningRef.
PerformUpdateUnguarded(h) ==
    IF h.hidden THEN h
    ELSE [h EXCEPT !.isRunning = TRUE, !.inFlight = @ + 1]

\* Faulty variant: performUpdate raises isRunningRef before it looks at document.hidden.
PerformUpdateFlagFirst(h) ==
    IF h.isRunning THEN h
    ELSE IF h.hidden THEN [h EXCEPT !.isRunning = TRUE]
    ELSE [h EXCEPT !.isRunning = TRUE, !.inFlight = @ + 1]

\* performUpdate up to its await: skip when the tab is hidden, skip when a
\* sweep is running, else raise the flag and call autoUpdateAllPets.
PerformUpdate(h) ==
    IF h.hidden THEN h
    ELSE IF h.isRunning THEN h
    ELSE [h EXCEPT !.isRunning = TRUE, !.inFlight = @ + 1]

\* The hook after an event that took it from h to h2, with the note of what
\* the event was and, when it invoked performUpdate, what that call found.
Noted(h, h2, event, performed) ==
    [h2 EXCEPT
        !.last = event,
        !.performed = performed,
        !.started = performed /\ h2.inFlight > h.inFlight,
        !.saw = IF performed
                THEN [hidden |-> h.hidden, running |-> h.isRunning,
                      inFlight |-> h.inFlight]
                ELSE NothingSeen]

\* The effect runs: without a secret key it returns at once; otherwise it
\* (in one version) runs performUpdate and then sets the interval.
MountEffect ==
    /\ ~hook.effect
    /\ hook' =
          IF ~hook.secretKey
          THEN Noted(hook, [hook EXCEPT !.effect = TRUE], "mount", FALSE)
          ELSE LET ran == IF hook.runOnMount THEN PerformUpdate(hook) ELSE hook IN
               Noted(hook, [ran EXCEPT !.effect = TRUE, !.interval = TRUE],
                     "mount", hook.runOnMount)
    /\ UNCHANGED <<store, before, call, result, events, version, txn, uiVars>>

\* The interval fires.
Tick ==
    /\ hook.interval
    /\ hook' = Noted(hook, PerformUpdate(hook), "tick", TRUE)
    /\ UNCHANGED <<store, before, call, result, events, version, txn, uiVars>>

\* Faulty variant: the flag is lowered after the await without a finally
\* block, so a sweep that throws leaves it up.
SettleKeepsFlag ==
    /\ hook.inFlight > 0
    /\ \E threw \in BOOLEAN :
          hook' = Noted(hook,
                        [hook EXCEPT !.isRunning = threw,
                                     !.hasRunOnce = @ \/ hook.runOnMount,
                                     !.inFlight = @ - 1],
                        "settle", FALSE)
    /\ UNCHANGED <<store, before, call, result, events, version, txn, uiVars>>

\* autoUpdateAllPets resolves or rejects: the finally block runs.
Settle ==
    /\ hook.inFlight > 0
    /\ hook' = Noted(hook,
                     [hook EXCEPT !.isRunning = FALSE,
                                  !.hasRunOnce = @ \/ hook.runOnMount,
                                  !.inFlight = @ - 1],
                     "settle", FALSE)
    /\ UNCHANGED <<store, before, call, result, events, version, txn, uiVars>>

\* The tab is hidden or shown.
VisibilityChange ==
    /\ hook' = Noted(hook, [hook EXCEPT !.hidden = ~@], "visibility", FALSE)
    /\ UNCHANGED <<store, before, call, result, events, version, txn, uiVars>>

\* The cleanup of the effect: the interval is cleared.
Cleanup ==
    /\ hook.effect
    /\ hook' = Noted(hook, [hook EXCEPT !.effect = FALSE, !.interval = FALSE],
                     "cleanup", FALSE)
    /\ UNCHANGED <<store, before, call, result, events, version, txn, uiVars>>

\* A sweep in flight asks forceUpdate for the pet.
SweepUpdatesPet ==
    /\ hook.inFlight > 0
    /\ \E cur \in SweepSeqs :
          /\ cur >= store[ConcPet].lastUpdateSequence
          /\ ApplyAction(ConcPet, "forceUpdate", FALSE, cur)

\* The store after one mint, and a hook of either version, with or without
\* the secret key, whose effect has not run yet.
HookInit ==
    /\ store = (ConcPet :> NewPet(0))
    /\ before = store
    /\ call = NoCall
    /\ result = "ok"
    /\ events = <<>>
    /\ version = (ConcPet :> 0)
    /\ txn = [c \in Callers |-> IdleTxn]
    /\ \E secretKey \in BOOLEAN, runOnMount \in BOOLEAN :
          hook = NewHook(secretKey, runOnMount)
    /\ UiInit

HookNext ==
    MountEffect \/ Tick \/ Settle \/ VisibilityChange \/ Cleanup \/ SweepUpdatesPet

HookSpec == HookInit /\ [][HookNext]_vars

\* The promise of autoUpdateAllPets settles: a sweep in flight does not stay
\* in flight for ever.
HookLiveSpec == HookSpec /\ WF_vars(Settle)

\* --------------------------------------------------- the minigames at play
\* The timers of TicTacToe all run for 500 ms, so they fire in the order they
\* were set: timers is a queue.
gameFrame ==
    <<store, before, call, result, events, version, txn, hook, mem, users>>

\* A click on a cell; the buttons and the handler decide whether it counts.
ClickCell ==
    /\ ttt.open
    /\ \E index \in Cells :
        \E random \in IF IsBoardFull([ttt.board EXCEPT ![index] = "X"])
                       THEN {index}
                       ELSE ComputerDraws([ttt.board EXCEPT ![index] = "X"]) :
          LET t2 == HandleCellClick(ttt, index, random) IN
          /\ ttt' = [t2 EXCEPT
                        !.wins = IF Len(t2.timers) > Len(ttt.timers)
                                    /\ t2.timers[Len(t2.timers)].kind = "win"
                                 THEN @ + 1 ELSE @,
                        !.last = "click",
                        !.click = [turn |-> ttt.isPlayerTurn,
                                   status |-> ttt.gameStatus,
                                   cell |-> ttt.board[index],
                                   accepted |-> t2.board # ttt.board]]
    /\ UNCHANGED <<gameFrame, rps>>

\* The oldest pending timer fires: the computer's move, or the call of
\* onGameWin.
TimerFires ==
    /\ ttt.open
    /\ ttt.timers # <<>>
    /\ LET timer == Head(ttt.timers)
           rest == [ttt EXCEPT !.timers = Tail(@), !.click = NoClick] IN
       ttt' = IF timer.kind = "move"
              THEN [ComputerMoves(rest, timer) EXCEPT !.last = "move"]
              ELSE [rest EXCEPT !.reports = @ + 1,
                                !.last = "report",
                                !.lineAtReport = HasLine(ttt.board, "X")]
    /\ UNCHANGED <<gameFrame, rps>>

\* Play Again, shown once the round is over.
ResetGame ==
    /\ ttt.open
    /\ ttt.gameStatus # "playing"
    /\ ttt.games < MaxGames
    /\ ttt' = [ttt EXCEPT !.board = EmptyBoard, !.isPlayerTurn = TRUE,
                          !.gameStatus = "playing", !.winningLine = <<>>,
                          !.games = @ + 1,
                          !.last = "reset", !.click = NoClick]
    /\ UNCHANGED <<gameFrame, rps>>

\* One of the three buttons, shown while no choice is made.
HandleChoice ==
    /\ rps.open
    /\ rps.playerChoice = ""
    /\ \E choice \in Choices, randomChoice \in Choices :
          rps' = [rps EXCEPT !.playerChoice = choice,
                            !.computerChoice = randomChoice,
                            !.result = DetermineWinner(choice, randomChoice),
                            !.last = "choice"]
    /\ UNCHANGED <<gameFrame, ttt>>

\* Claim Reward, shown when the result is a win: onGameWin is called.
HandleClaimReward ==
    /\ rps.open
    /\ rps.playerChoice # "" /\ rps.result = "win"
    /\ rps' = [rps EXCEPT !.last = "claim"]
    /\ UNCHANGED <<gameFrame, ttt>>

\* Play Again, shown when the result is not a win.
RpsResetGame ==
    /\ rps.open
    /\ rps.playerChoice # "" /\ rps.result # "win"
    /\ rps' = [rps EXCEPT !.playerChoice = "", !.computerChoice = "",
                          !.result = "", !.last = "reset"]
    /\ UNCHANGED <<gameFrame, ttt>>

\* One of the two games has been opened.
GameInit ==
    /\ store = EmptyStore
    /\ before = EmptyStore
    /\ call = NoCall
    /\ result = "ok"
    /\ events = <<>>
    /\ version = EmptyStore
    /\ txn = [c \in Callers |-> IdleTxn]
    /\ hook = NewHook(FALSE, FALSE)
    /\ \E tictactoe \in BOOLEAN :
          /\ ttt = [NewTicTacToe EXCEPT !.open = tictactoe]
          /\ rps = [NewRps EXCEPT !.open = ~tictactoe]
    /\ mem = NewMemoryGame
    /\ users = NewUsers

GameNext ==
    \/ ClickCell \/ TimerFires \/ ResetGame
    \/ HandleChoice \/ HandleClaimReward \/ RpsResetGame

GameSpec == GameInit /\ [][GameNext]_vars

\* ------------------------------------------------- the memory game at play
memFrame ==
    <<store, before, call, result, events, version, txn, hook, ttt, rps, users>>

\* A click on a card.
CardClick ==
    /\ mem.open
    /\ \E cardId \in Positions :
          mem' = [HandleCardClick(mem, cardId) EXCEPT !.last = "click"]
    /\ UNCHANGED memFrame

\* A pending timer fires: the check of a selection, or the call of onGameWin.
MemTimerFires ==
    /\ mem.open
    /\ \E i \in 1..Len(mem.timers) :
          /\ CanFire(mem.timers, i)
          /\ LET t == mem.timers[i]
                 rest == [mem EXCEPT !.timers = Without(@, i),
                                     !.dealOfTimer = t.deal]
             IN mem' = CASE t.kind = "match" ->
                              [MatchTimer(rest, t) EXCEPT !.last = "match"]
                         [] t.kind = "flipback" ->
                              [FlipBackTimer(rest, t) EXCEPT !.last = "flipback"]
                         [] OTHER ->
                              [rest EXCEPT !.reports = @ + 1,
                                           !.last = "report",
                                           !.wonAtReport = AllMatched(mem)]
    /\ UNCHANGED memFrame

\* Reset Game: the deck is shuffled and dealt again.
MemResetGame ==
    /\ mem.open
    /\ mem.deals < MaxDeals
    /\ \E d \in Decks :
          mem' = [InitializeGame(mem, d) EXCEPT !.deals = @ + 1, !.last = "reset"]
    /\ UNCHANGED memFrame

\* The component is mounted and its effect has dealt the first deck.
MemInit ==
    /\ store = EmptyStore
    /\ before = EmptyStore
    /\ call = NoCall
    /\ result = "ok"
    /\ events = <<>>
    /\ version = EmptyStore
    /\ txn = [c \in Callers |-> IdleTxn]
    /\ hook = NewHook(FALSE, FALSE)
    /\ ttt = NewTicTacToe
    /\ rps = NewRps
    /\ users = NewUsers
    /\ \E d \in Decks :
          mem = [InitializeGame(NewMemoryGame, d) EXCEPT !.open = TRUE, !.deals = 1]

MemNext == CardClick \/ MemTimerFires \/ MemResetGame

MemSpec == MemInit /\ [][MemNext]_vars

\* ---------------------------------------------- getOrCreateUser in parallel
\* Each await of getOrCreateUser is one request to the table; the requests of
\* different calls reach it in any order.
userFrame ==
    <<store, before, call, result, events, version, txn, hook, ttt, rps, mem>>

\* The effect of useSupabaseUser runs with an address: loadUser calls
\* getOrCreateUser, which sends its select.
LoadUser(c) ==
    /\ users.calls[c].pc = "idle"
    /\ \E address \in Wallets :
          users' = [users EXCEPT
                       !.calls[c] = [pc |-> "select", wallet |-> address, ret |-> 0]]
    /\ UNCHANGED userFrame

\* The select is answered: the existing user is returned, or the insert is
\* sent.
FindUser(c) ==
    /\ users.calls[c].pc = "select"
    /\ LET existingUser == SelectSingle(users.rows, users.calls[c].wallet) IN
       users' = IF existingUser # 0
                THEN [users EXCEPT !.calls[c].pc = "done",
                                   !.calls[c].ret = existingUser]
                ELSE [users EXCEPT !.calls[c].pc = "insert"]
    /\ UNCHANGED userFrame

\* The insert is answered: the new user is returned, or null on createError.
CreateUser(c) ==
    /\ users.calls[c].pc = "insert"
    /\ LET created == InsertUser(users, users.calls[c].wallet) IN
       users' = [users EXCEPT !.rows = created.rows,
                              !.calls[c].pc = "done",
                              !.calls[c].ret = created.data]
    /\ UNCHANGED userFrame

\* The table is empty; it may or may not hold a uniqueness constraint on the
\* wallet address.
UserInit ==
    /\ store = EmptyStore
    /\ before = EmptyStore
    /\ call = NoCall
    /\ result = "ok"
    /\ events = <<>>
    /\ version = EmptyStore
    /\ txn = [c \in Callers |-> IdleTxn]
    /\ hook = NewHook(FALSE, FALSE)
    /\ ttt = NewTicTacToe
    /\ rps = NewRps
    /\ mem = NewMemoryGame
    /\ \E unique \in BOOLEAN : users = [NewUsers EXCEPT !.unique = unique]

UserNext ==
    \E c \in Components : LoadUser(c) \/ FindUser(c) \/ CreateUser(c)

UserSpec == UserInit /\ [][UserNext]_vars

\* ---------------------------------------------------------- the last request
\* The last request was an applyAction on a pet the store held.
Known == call.op \in Kinds /\ call.petId \in DOMAIN before
\* ... and it succeeded.
Applied == Known /\ result = "ok"
\* The record it loaded and the record it left.
Old == before[call.petId]
New == store[call.petId]
\* Sequence distance and age the request was evaluated at.
Elapsed == call.seq - Old.lastUpdateSequence
AgeNow == call.seq - Old.birthSequence
\* The stats of Old decayed over Elapsed, written out.
DecayedHunger == Min(100, Old.hunger + (Elapsed \div 30))
DecayedHappiness == Max(0, Old.happiness - (Elapsed \div 60))
DecayedHealth ==
    IF Old.hunger + (Elapsed \div 30) > 100
    THEN Max(0, Old.health - (Old.hunger + (Elapsed \div 30) - 100))
    ELSE Old.health

\* C1: in every reachable state the happiness, hunger and health of every
\* stored pet are integers in 0..100.
C1_StatsInRange ==
    \A id \in DOMAIN store :
        /\ store[id].happiness \in 0..100
        /\ store[id].hunger \in 0..100
        /\ store[id].health \in 0..100

\* A feed whose raw deltas leave the range on both stats: happiness above 85
\* and hunger below 40 when the deltas are applied.
C1_Witness ==
    /\ Applied /\ call.op = "feed"
    /\ DecayedHappiness + 15 > 100
    /\ DecayedHunger - 40 < 0
    /\ New.happiness = 100 /\ New.hunger = 0

\* C2: no transition lowers the stage rank (Egg < Baby < Teen < Adult) of a
\* pet, whatever happens to its stats, and death and revival keep the stage.
C2_StageNeverDecreases ==
    \A id \in DOMAIN before : store[id].stage >= before[id].stage

\* A Teen that died is revived: its happiness is below the Teen threshold and
\* it is still a Teen.
C2_Witness ==
    /\ Applied /\ call.op = "revive"
    /\ Old.stage = Teen /\ ~Old.isAlive
    /\ New.stage = Teen /\ New.isAlive /\ New.happiness < 60

\* C3: earnedAchievements only grows by appending, never holds an id twice,
\* and an achievementUnlocked event carries an id that the transition added
\* and that was not earned before it.
C3_AchievementsGrowOnce ==
    /\ \A id \in DOMAIN before :
          /\ Len(store[id].earnedAchievements) >= Len(before[id].earnedAchievements)
          /\ SubSeq(store[id].earnedAchievements, 1,
                    Len(before[id].earnedAchievements))
                = before[id].earnedAchievements
    /\ \A id \in DOMAIN store :
          Cardinality(Range(store[id].earnedAchievements))
              = Len(store[id].earnedAchievements)
    /\ \A i \in 1..Len(events) :
          events[i].type = "achievementUnlocked" =>
              /\ events[i].payload \in Range(store[events[i].petId].earnedAchievements)
              /\ events[i].petId \in DOMAIN before =>
                    events[i].payload
                        \notin Range(before[events[i].petId].earnedAchievements)
    /\ Applied =>
          \A a \in Range(New.earnedAchievements) \ Range(Old.earnedAchievements) :
              \E i \in 1..Len(events) :
                  events[i].type = "achievementUnlocked" /\ events[i].payload = a

\* The perfect-stats rule fires again on a pet that already earned it.
C3_Witness ==
    /\ Applied
    /\ PerfectStats \in Range(Old.earnedAchievements)
    /\ New.happiness = 100 /\ New.hunger = 0 /\ New.health = 100
    /\ New.earnedAchievements = Old.earnedAchievements

\* A forceUpdate that succeeded at the sequence the record was last updated at.
ZeroElapsedUpdate == Applied /\ call.op = "forceUpdate" /\ Elapsed = 0

\* C4 as stated: forceUpdate at currentSequence = lastUpdateSequence leaves
\* happiness, hunger, health and lastUpdateSequence unchanged, and repeating
\* it at the same sequence gives the same record again.
C4_RepeatGivesSameRecord ==
    ZeroElapsedUpdate =>
        /\ New.happiness = Old.happiness
        /\ New.hunger = Old.hunger
        /\ New.health = Old.health
        /\ New.lastUpdateSequence = Old.lastUpdateSequence
        /\ Transition(New, "forceUpdate", FALSE, call.seq) = New

\* C4 amended: forceUpdate at currentSequence = lastUpdateSequence leaves
\* happiness, hunger, health, lastUpdateSequence, isAlive, birthSequence and
\* both counters unchanged however often it is repeated; the stage may advance
\* by one rank per repetition and achievements may unlock, and the record is
\* the same whenever neither happens.
C4_ZeroElapsedKeepsStats ==
    ZeroElapsedUpdate =>
        LET again == Transition(New, "forceUpdate", FALSE, call.seq) IN
        /\ New.happiness = Old.happiness
        /\ New.hunger = Old.hunger
        /\ New.health = Old.health
        /\ New.lastUpdateSequence = Old.lastUpdateSequence
        /\ New.isAlive = Old.isAlive
        /\ New.birthSequence = Old.birthSequence
        /\ New.feedCount = Old.feedCount /\ New.playCount = Old.playCount
        /\ New.stage \in {Old.stage, Old.stage + 1}
        /\ (New.stage = Old.stage
              /\ New.earnedAchievements = Old.earnedAchievements) => New = Old
        /\ <<again.happiness, again.hunger, again.health, again.lastUpdateSequence>>
              = <<New.happiness, New.hunger, New.health, New.lastUpdateSequence>>

\* A zero-elapsed forceUpdate on a living pet whose stats have decayed and
\* which has nothing left to evolve into or unlock: the record is unchanged.
C4_Witness ==
    /\ ZeroElapsedUpdate
    /\ Old.isAlive /\ Old.hunger > 0 /\ Old.happiness < 100
    /\ call.seq > Old.birthSequence
    /\ New = Old

\* C5: a successful feed decays the pet to the current sequence, then sets
\* hunger to max(0, hunger - 40) and happiness to min(100, happiness + 15) and
\* adds exactly 1 to feedCount; health is what decay left, birthSequence and
\* playCount are unchanged. With zero elapsed and hunger 100 the result is
\* hunger 60 and happiness min(100, prior + 15).
C5_FeedEffects ==
    (Applied /\ call.op = "feed") =>
        /\ Old.isAlive
        /\ New.hunger = Max(0, DecayedHunger - 40)
        /\ New.happiness = Min(100, DecayedHappiness + 15)
        /\ New.feedCount = Old.feedCount + 1
        /\ New.health = DecayedHealth
        /\ New.birthSequence = Old.birthSequence
        /\ New.playCount = Old.playCount
        /\ New.lastUpdateSequence = call.seq
        /\ (Elapsed = 0 /\ Old.hunger = 100) =>
              /\ New.hunger = 60
              /\ New.happiness = Min(100, Old.happiness + 15)

\* A pet with hunger 100 is fed with zero elapsed time.
C5_Witness ==
    /\ Applied /\ call.op = "feed"
    /\ Elapsed = 0 /\ Old.hunger = 100
    /\ New.hunger = 60 /\ New.feedCount = Old.feedCount + 1

\* C6: a successful play adds 25 to the decayed happiness (capped at 100) and
\* 1 to playCount when won is true; when won is false happiness is the
\* decayed happiness and playCount is unchanged. Hunger, health and feedCount
\* are what decay left in both cases.
C6_PlayEffects ==
    (Applied /\ call.op = "play") =>
        /\ Old.isAlive
        /\ New.happiness =
              IF call.won THEN Min(100, DecayedHappiness + 25) ELSE DecayedHappiness
        /\ New.playCount = IF call.won THEN Old.playCount + 1 ELSE Old.playCount
        /\ New.hunger = DecayedHunger
        /\ New.health = DecayedHealth
        /\ New.feedCount = Old.feedCount

\* A lost play on a pet with room for the reward, after some elapsed time:
\* only decay is applied.
C6_Witness ==
    /\ Applied /\ call.op = "play" /\ ~call.won
    /\ Elapsed >= 60 /\ DecayedHappiness <= 75
    /\ New.happiness = DecayedHappiness
    /\ New.playCount = Old.playCount

\* C7: a successful transition of any kind on a living Egg leaves it a Baby
\* when age = currentSequence - birthSequence >= 36, whatever its stats, and
\* an Egg when age < 36.
C7_EggToBaby ==
    (Applied /\ Old.isAlive /\ Old.stage = Egg) =>
        New.stage = IF AgeNow >= 36 THEN Baby ELSE Egg

\* The pet minted at sequence 0 is force-updated at sequence 36 for the first
\* time and is a Baby.
C7_Witness ==
    /\ Applied /\ call.op = "forceUpdate"
    /\ Old.birthSequence = 0 /\ Old.lastUpdateSequence = 0 /\ Old.stage = Egg
    /\ call.seq = 36
    /\ New.stage = Baby

\* C8: the stage goes from Baby to Teen only in a successful transition whose
\* result has age >= 84 and happiness >= 60, and from Teen to Adult only in one
\* whose result has age >= 144, happiness >= 60 and health >= 80; and a
\* successful transition on a living Baby or Teen whose result meets the
\* condition of that stage does promote it.
C8_StatGatedEvolution ==
    /\ \A id \in DOMAIN before :
          /\ (before[id].stage = Baby /\ store[id].stage # Baby) =>
                /\ Applied /\ call.petId = id
                /\ store[id].stage = Teen
                /\ call.seq - store[id].birthSequence >= 84
                /\ store[id].happiness >= 60
          /\ (before[id].stage = Teen /\ store[id].stage # Teen) =>
                /\ Applied /\ call.petId = id
                /\ store[id].stage = Adult
                /\ call.seq - store[id].birthSequence >= 144
                /\ store[id].happiness >= 60
                /\ store[id].health >= 80
    /\ (Applied /\ Old.isAlive /\ Old.stage = Baby
          /\ AgeNow >= 84 /\ New.happiness >= 60) => New.stage = Teen
    /\ (Applied /\ Old.isAlive /\ Old.stage = Teen
          /\ AgeNow >= 144 /\ New.happiness >= 60 /\ New.health >= 80)
          => New.stage = Adult

\* A Teen old enough and happy enough but with health below 80 stays a Teen.
C8_Witness ==
    /\ Applied /\ Old.isAlive /\ Old.stage = Teen
    /\ AgeNow >= 144 /\ New.happiness >= 60 /\ New.health < 80 /\ New.isAlive
    /\ New.stage = Teen

\* C9: one applyAction raises the stage by at most one rank, whatever the age.
C9_OneRankPerAction ==
    \A id \in DOMAIN before : store[id].stage - before[id].stage \in {0, 1}

\* The pet minted at sequence 0 has its first transition at a sequence >= 144
\* with stats that meet every later condition, and is a Baby.
C9_Witness ==
    /\ Applied
    /\ Old.birthSequence = 0 /\ Old.lastUpdateSequence = 0 /\ Old.stage = Egg
    /\ call.seq >= 144
    /\ New.happiness >= 60 /\ New.health >= 80
    /\ New.stage = Baby

\* A feed, play or chatTouch asked of a dead pet.
DeadPetRequest ==
    Known /\ ~Old.isAlive /\ call.op \in {"feed", "play", "chatTouch"}

\* C10 as stated: every feed or play on a dead pet fails with DeadPetError.
C10_FeedPlayFailDeadPet ==
    (DeadPetRequest /\ call.op \in {"feed", "play"}) => result = "DeadPetError"

\* C10 amended: a stored pet with health 0 has isAlive = false; a feed, play
\* or chatTouch on a dead pet fails and changes nothing, with DeadPetError when
\* currentSequence >= lastUpdateSequence and with InvalidSequenceError when it
\* is below; only forceUpdate and revive succeed on a dead pet, and a dead pet
\* comes back alive only by a successful revive.
C10_DeadPetRejects ==
    /\ \A id \in DOMAIN store : store[id].health = 0 => ~store[id].isAlive
    /\ DeadPetRequest =>
          /\ result = IF call.seq < Old.lastUpdateSequence
                      THEN "InvalidSequenceError" ELSE "DeadPetError"
          /\ store = before
          /\ events = <<>>
    /\ (Applied /\ ~Old.isAlive) => call.op \in {"forceUpdate", "revive"}
    /\ \A id \in DOMAIN before :
          (~before[id].isAlive /\ store[id].isAlive) =>
              Applied /\ call.petId = id /\ call.op = "revive"

\* A feed on a pet whose health was driven to 0 fails with DeadPetError.
C10_Witness ==
    /\ DeadPetRequest /\ call.op = "feed"
    /\ Old.health = 0
    /\ call.seq >= Old.lastUpdateSequence
    /\ result = "DeadPetError" /\ store = before

\* C11: a successful revive is made on a dead pet and leaves it with health 50,
\* happiness 30, hunger 50 and isAlive = true; stage, birthSequence, feedCount
\* and playCount are what they were and every achievement earned before is
\* still earned, in the same place. This holds for each revival of a pet that
\* dies and is revived again.
C11_ReviveFrame ==
    (Applied /\ call.op = "revive") =>
        /\ ~Old.isAlive
        /\ New.health = 50 /\ New.happiness = 30 /\ New.hunger = 50
        /\ New.isAlive
        /\ New.stage = Old.stage
        /\ New.birthSequence = Old.birthSequence
        /\ New.feedCount = Old.feedCount
        /\ New.playCount = Old.playCount
        /\ SubSeq(New.earnedAchievements, 1, Len(Old.earnedAchievements))
              = Old.earnedAchievements

\* The second revival of a pet that was fed before it first died: it has
\* "survived death" already and a counter above 0.
C11_Witness ==
    /\ Applied /\ call.op = "revive"
    /\ SurvivedDeath \in Range(Old.earnedAchievements)
    /\ Old.feedCount > 0
    /\ New.isAlive /\ New.health = 50
    /\ New.feedCount = Old.feedCount

\* C12: a pet that a request found dead has the same happiness, hunger,
\* health, stage, feedCount and playCount after it, unless the request was a
\* successful revive of that pet; a forceUpdate on a dead pet at a later
\* sequence decays nothing and promotes nothing, whatever the pet's age.
C12_DeadPetFrozen ==
    \A id \in DOMAIN before :
        (~before[id].isAlive
           /\ ~(Applied /\ call.petId = id /\ call.op = "revive")) =>
            /\ store[id].happiness = before[id].happiness
            /\ store[id].hunger = before[id].hunger
            /\ store[id].health = before[id].health
            /\ store[id].stage = before[id].stage
            /\ store[id].feedCount = before[id].feedCount
            /\ store[id].playCount = before[id].playCount
            /\ ~store[id].isAlive

\* A dead Baby with happiness left, older than the Baby threshold, is
\* force-updated at least 60 sequence units after its last update.
C12_Witness ==
    /\ Applied /\ call.op = "forceUpdate"
    /\ ~Old.isAlive /\ Old.stage = Baby /\ Old.happiness > 0
    /\ Elapsed >= 60 /\ AgeNow >= 84
    /\ New.stage = Baby /\ New.happiness = Old.happiness

\* The transition added achievement id to the record of the pet it acted on.
NewlyEarned(id) ==
    /\ id \in Range(New.earnedAchievements)
    /\ id \notin Range(Old.earnedAchievements)

\* Number of achievementUnlocked events for id among the returned events.
UnlockEvents(id) ==
    Cardinality({ i \in 1..Len(events) :
        events[i].type = "achievementUnlocked" /\ events[i].payload = id })

\* C13: "active player" is added, with one event, by exactly the winning play
\* that brings playCount to 10 and by no other transition (a lost play leaves
\* the counter alone), and "feeding streak" by exactly the feed that brings
\* feedCount to 10; so each is earned iff its counter is at least 10, and it
\* stays earned once however many plays or feeds follow.
C13_CounterUnlocksOnTenth ==
    /\ Applied =>
          /\ NewlyEarned(ActivePlayer) <=>
                (call.op = "play" /\ call.won /\ Old.playCount = 9
                    /\ New.playCount = 10)
          /\ NewlyEarned(FeedingStreak) <=>
                (call.op = "feed" /\ Old.feedCount = 9 /\ New.feedCount = 10)
          /\ UnlockEvents(ActivePlayer) = IF NewlyEarned(ActivePlayer) THEN 1 ELSE 0
          /\ UnlockEvents(FeedingStreak) = IF NewlyEarned(FeedingStreak) THEN 1 ELSE 0
          /\ (call.op = "play" /\ ~call.won) => New.playCount = Old.playCount
    /\ \A id \in DOMAIN store :
          LET pet == store[id] IN
          /\ ActivePlayer \in Range(pet.earnedAchievements) <=> pet.playCount >= 10
          /\ FeedingStreak \in Range(pet.earnedAchievements) <=> pet.feedCount >= 10
          /\ Cardinality(Range(pet.earnedAchievements)) = Len(pet.earnedAchievements)

\* The tenth winning play, on a pet that has been fed more than ten times:
\* "active player" is added and "feeding streak" is not added again.
C13_Witness ==
    /\ Applied /\ call.op = "play" /\ call.won
    /\ Old.playCount = 9 /\ Old.feedCount > 10
    /\ NewlyEarned(ActivePlayer)
    /\ UnlockEvents(ActivePlayer) = 1 /\ UnlockEvents(FeedingStreak) = 0

\* The three stats of a record are all at their best.
Perfect(pet) == pet.happiness = 100 /\ pet.hunger = 0 /\ pet.health = 100

PromotionAchievement == <<FirstEvolution, SecondEvolution, FinalEvolution>>

\* C15: the transition that promotes a pet into Baby, Teen or Adult adds
\* "first evolution", "second evolution" or "final evolution" respectively,
\* with its event next to the evolved event; a stored pet has earned the
\* achievement of a stage exactly when its stage is that stage or a later
\* one, so none is earned below its stage; and the three ids differ.
C15_PromotionUnlocksOwnAchievement ==
    /\ \A id \in DOMAIN before :
          store[id].stage # before[id].stage =>
              LET a == PromotionAchievement[store[id].stage] IN
              /\ Applied /\ call.petId = id
              /\ a \in Range(store[id].earnedAchievements)
              /\ a \notin Range(before[id].earnedAchievements)
              /\ UnlockEvents(a) = 1
              /\ \E i \in 1..Len(events) : events[i].type = "evolved"
    /\ \A id \in DOMAIN store : \A t \in Baby..Adult :
          PromotionAchievement[t] \in Range(store[id].earnedAchievements)
              <=> store[id].stage >= t
    /\ Cardinality(Range(PromotionAchievement)) = 3

\* A Teen that holds the first two is promoted to Adult and gets the third.
C15_Witness ==
    /\ Applied /\ Old.stage = Teen /\ New.stage = Adult
    /\ FirstEvolution \in Range(Old.earnedAchievements)
    /\ SecondEvolution \in Range(Old.earnedAchievements)
    /\ NewlyEarned(FinalEvolution)
    /\ UnlockEvents(FinalEvolution) = 1

\* C16: a request of any kind on a stored pet with currentSequence below the
\* pet's lastUpdateSequence fails with InvalidSequenceError and leaves the
\* store as it was; a transition that is applied has a non-negative elapsed
\* distance and sets lastUpdateSequence to currentSequence; so no request
\* lowers the lastUpdateSequence of any pet and it is never below
\* birthSequence.
C16_BackwardSequenceRejected ==
    /\ (Known /\ call.seq < Old.lastUpdateSequence) =>
          /\ result = "InvalidSequenceError"
          /\ store = before
          /\ events = <<>>
    /\ Applied =>
          /\ Elapsed >= 0
          /\ New.lastUpdateSequence = call.seq
    /\ \A id \in DOMAIN before :
          store[id].lastUpdateSequence >= before[id].lastUpdateSequence
    /\ \A id \in DOMAIN store :
          store[id].lastUpdateSequence >= store[id].birthSequence

\* A revive of a dead pet, which would succeed at the current sequence, is
\* asked at a sequence before the pet's last update.
C16_Witness ==
    /\ Known /\ call.op = "revive" /\ ~Old.isAlive
    /\ call.seq < Old.lastUpdateSequence
    /\ Old.lastUpdateSequence > Old.birthSequence
    /\ result = "InvalidSequenceError" /\ store = before

\* C17: a request that fails (with NotFoundError, DeadPetError or
\* InvalidSequenceError) leaves the record of every pet as it was and returns
\* no events; a request that succeeds replaces the record of its pet by the
\* result of the whole transition and leaves every other record alone, so the
\* store never holds a record between load and persist.
C17_AllOrNothing ==
    call.op \in Kinds =>
        /\ result \in {"ok", "NotFoundError", "DeadPetError", "InvalidSequenceError"}
        /\ result # "ok" =>
              /\ store = before
              /\ events = <<>>
        /\ result = "ok" =>
              /\ call.petId \in DOMAIN before
              /\ store = [before EXCEPT ![call.petId] =
                            Transition(Old, call.op, call.won, call.seq)]

\* A revive asked of a living pet long after its last update: decay alone
\* would have changed the record, and the request fails with DeadPetError.
C17_Witness ==
    /\ Known /\ call.op = "revive" /\ Old.isAlive
    /\ Elapsed >= 60
    /\ Decay(Old, call.seq).happiness < Old.happiness
    /\ result = "DeadPetError"
    /\ store = before /\ events = <<>>

\* The store and the outcome of request t made on store st by itself.
SerialOutcome(st, t) == Outcome(st, ConcPet, t.kind, t.seq)
SerialStore(st, t) ==
    IF SerialOutcome(st, t) = "ok"
    THEN [st EXCEPT ![ConcPet] = Transition(st[ConcPet], t.kind, t.won, t.seq)]
    ELSE st

\* The two requests of the round were served as if first then second.
ServedInOrder(first, second) ==
    LET mid == SerialStore(before, txn[first]) IN
    /\ txn[first].outcome = SerialOutcome(before, txn[first])
    /\ txn[second].outcome = SerialOutcome(mid, txn[second])
    /\ store = SerialStore(mid, txn[second])

BothDone == \A c \in Callers : txn[c].pc = "done"

\* C18: when a detail-view request and a sweep forceUpdate on the same pet,
\* made at once on the store whose put rejects a stale version, have both
\* returned, the record and the two outcomes are those of running the two
\* requests one after the other in one of the two orders; neither returned
\* VersionConflict, and the record was persisted once per successful request.
C18_ConcurrentCallsSerialize ==
    /\ BothDone =>
          /\ ServedInOrder("detail", "sweep") \/ ServedInOrder("sweep", "detail")
          /\ \A c \in Callers : txn[c].outcome # "VersionConflict"
    /\ \A c \in Callers : txn[c].attempts <= 1

\* A feed and a forceUpdate, both 60 or more after the pet's last update,
\* both read before either wrote: the feed was persisted first, the
\* forceUpdate met VersionConflict, reloaded and was persisted second.
C18_Witness ==
    /\ BothDone
    /\ txn["detail"].kind = "feed" /\ txn["detail"].outcome = "ok"
    /\ txn["detail"].attempts = 0
    /\ txn["sweep"].attempts = 1 /\ txn["sweep"].outcome = "ok"
    /\ txn["detail"].seq >= before[ConcPet].lastUpdateSequence + 60
    /\ txn["sweep"].seq >= txn["detail"].seq
    /\ store[ConcPet].feedCount = before[ConcPet].feedCount + 1
    /\ ServedInOrder("detail", "sweep")

\* C19: the hook never has more than one autoUpdateAllPets call in flight,
\* and the flag isRunningRef is up exactly while one is; a performUpdate (from
\* the interval or from the start of the effect) that finds the flag up
\* starts no sweep, and one that starts a sweep found the flag down and
\* nothing in flight.
C19_OneSweepInFlight ==
    /\ hook.inFlight \in {0, 1}
    /\ hook.isRunning <=> hook.inFlight = 1
    /\ (hook.performed /\ hook.saw.running) =>
          /\ ~hook.started
          /\ hook.inFlight = hook.saw.inFlight
    /\ hook.started =>
          /\ hook.performed
          /\ ~hook.saw.running /\ hook.saw.inFlight = 0

\* The interval fires with the tab visible while the only sweep ever started
\* has not settled: nothing is started, one sweep is in flight.
C19_Witness ==
    /\ hook.last = "tick" /\ hook.performed
    /\ ~hook.saw.hidden /\ hook.saw.running
    /\ ~hook.hasRunOnce /\ hook.runOnMount
    /\ ~hook.started /\ hook.inFlight = 1

\* The last event was a performUpdate that found the tab hidden.
HiddenTick == hook.performed /\ hook.saw.hidden

\* C20: a performUpdate that finds the tab hidden starts no sweep and leaves
\* isRunningRef and the number of sweeps in flight as they were, so a later
\* one that finds the tab visible and the flag down does start a sweep; and
\* the record of a pet changes only while a sweep is in flight.
C20_HiddenTickStartsNothing ==
    /\ [](/\ HiddenTick =>
               /\ ~hook.started
               /\ hook.isRunning = hook.saw.running
               /\ hook.inFlight = hook.saw.inFlight
          /\ (hook.performed /\ ~hook.saw.hidden /\ ~hook.saw.running) =>
               /\ hook.started
               /\ hook.isRunning)
    /\ [][store' # store => hook.inFlight > 0]_vars

\* The interval fires with the tab hidden after an earlier sweep has settled:
\* the flag stays down and nothing is in flight.
C20_Witness ==
    /\ hook.last = "tick" /\ HiddenTick
    /\ hook.hasRunOnce /\ ~hook.saw.running
    /\ ~hook.isRunning /\ hook.inFlight = 0 /\ ~hook.started

\* C21: no stored pet has health 0 and isAlive = true, whichever kind of
\* request it was whose decay step brought health to 0.
C21_ZeroHealthIsDead ==
    \A id \in DOMAIN store : store[id].health = 0 => ~store[id].isAlive

\* A feed on a living pet whose decay step brings health to 0: the request
\* succeeds and leaves the pet dead.
C21_Witness ==
    /\ Applied /\ call.op = "feed"
    /\ Old.isAlive /\ Old.health > 0
    /\ DecayedHealth = 0
    /\ New.health = 0 /\ ~New.isAlive

\* C22: the decay of a living pet from its lastUpdateSequence L to a sequence
\* C >= L has hunger min(100, hunger + (C - L) div 30), happiness
\* max(0, happiness - (C - L) div 60) and lastUpdateSequence C, and every field
\* other than the three stats and lastUpdateSequence as it was; a forceUpdate
\* or chatTouch persists exactly these two stats and this lastUpdateSequence.
C22_DecayFormula ==
    (Known /\ Old.isAlive /\ call.seq >= Old.lastUpdateSequence) =>
        LET d == Decay(Old, call.seq) IN
        /\ d.hunger = Min(100, Old.hunger + (Elapsed \div 30))
        /\ d.happiness = Max(0, Old.happiness - (Elapsed \div 60))
        /\ d.lastUpdateSequence = call.seq
        /\ [d EXCEPT !.hunger = Old.hunger, !.happiness = Old.happiness,
                     !.health = Old.health,
                     !.lastUpdateSequence = Old.lastUpdateSequence] = Old
        /\ (Applied /\ call.op \in {"forceUpdate", "chatTouch"}) =>
              /\ New.hunger = d.hunger
              /\ New.happiness = d.happiness
              /\ New.lastUpdateSequence = call.seq

\* A forceUpdate on a living pet after a distance that is a multiple of
\* neither interval, with neither clamp reached.
C22_Witness ==
    /\ Applied /\ call.op = "forceUpdate" /\ Old.isAlive
    /\ Elapsed > 60 /\ Elapsed % 60 # 0 /\ Elapsed % 30 # 0
    /\ New.hunger = Old.hunger + (Elapsed \div 30) /\ New.hunger < 100
    /\ New.happiness = Old.happiness - (Elapsed \div 60) /\ New.happiness > 0

WinTimers == { i \in 1..Len(ttt.timers) : ttt.timers[i].kind = "win" }

\* The player's choice beats the computer's.
PlayerBeatsComputer ==
    <<rps.playerChoice, rps.computerChoice>> \in
        { <<"rock", "scissors">>, <<"paper", "rock">>, <<"scissors", "paper">> }

Returned == { c \in Components : users.calls[c].pc = "done" }

\* C25: concurrent getOrCreateUser calls for one wallet address create at most
\* one user record for it, and every call returns that record.
C25_OneUserPerWallet ==
    /\ \A address \in Wallets : Cardinality(Matching(users.rows, address)) <= 1
    /\ \A c \in Returned :
          /\ users.calls[c].ret # 0
          /\ users.rows[users.calls[c].ret] = users.calls[c].wallet

\* What one forceUpdate at the pet's lastUpdateSequence would have made of the
\* hunger and the happiness it was minted with.
SingleUpdateHunger(pet) ==
    Min(100, InitHunger + ((pet.lastUpdateSequence - pet.birthSequence) \div 30))

SingleUpdateHappiness(pet) ==
    Max(0, InitHappiness - ((pet.lastUpdateSequence - pet.birthSequence) \div 60))

\* C26 as stated: after any schedule of forceUpdates ending at sequence S a
\* pet that was never fed or played with has the hunger and the happiness of
\* a single forceUpdate at S.
C26_DecayIgnoresSchedule ==
    \A petId \in DOMAIN store :
        /\ store[petId].hunger = SingleUpdateHunger(store[petId])
        /\ store[petId].happiness = SingleUpdateHappiness(store[petId])

\* C26 amended: each forceUpdate decays the whole intervals of the distance
\* to the previous update and drops the remainder, so after a schedule of
\* forceUpdates hunger is at most, and happiness at least, what a single
\* forceUpdate at the last sequence gives, with equality for a schedule of
\* one update; an update less than 30 (60) units after the previous one
\* leaves hunger (happiness) as it was.
C26_DecayDropsRemainders ==
    /\ \A petId \in DOMAIN store :
          /\ store[petId].hunger <= SingleUpdateHunger(store[petId])
          /\ store[petId].happiness >= SingleUpdateHappiness(store[petId])
    /\ (Applied /\ call.op = "forceUpdate") =>
          /\ New.hunger = Min(100, Old.hunger + (Elapsed \div 30))
          /\ New.happiness = Max(0, Old.happiness - (Elapsed \div 60))
          /\ Elapsed < 30 => New.hunger = Old.hunger
          /\ Elapsed < 60 => New.happiness = Old.happiness
          /\ Old.lastUpdateSequence = Old.birthSequence =>
                /\ New.hunger = SingleUpdateHunger(New)
                /\ New.happiness = SingleUpdateHappiness(New)

\* Two forceUpdates 20 units apart, the second 40 units after the mint: a
\* single update would have raised hunger, these did not.
C26_Witness ==
    /\ Applied /\ call.op = "forceUpdate"
    /\ Elapsed > 0 /\ Elapsed < 30
    /\ New.lastUpdateSequence - New.birthSequence >= 30
    /\ New.hunger = InitHunger
    /\ New.hunger < SingleUpdateHunger(New)

\* The last request found the pet alive and left it dead.
DiedInTransition == Applied /\ Old.isAlive /\ ~New.isAlive

\* The promotion achievements the last request added.
PromotionsEarned ==
    { t \in Baby..Adult : NewlyEarned(PromotionAchievement[t]) }

TooWeakForAdult(st, id) ==
    /\ id \in DOMAIN st
    /\ st[id].stage # Adult
    /\ st[id].health < 80

\* C28: the health of a stored pet rises only in a revive, which sets it to
\* 50; every other request leaves it as it was or lower. So a pet below Adult
\* whose health is below 80, as it is for a Teen whose health has fallen
\* below 80 and for a pet that has died, is below Adult and below health 80
\* after every request, and so in every later state.
C28_HealthRisesOnlyOnRevive ==
    /\ Applied =>
          IF call.op = "revive" THEN New.health = 50
          ELSE New.health <= Old.health
    /\ \A id \in DOMAIN before :
          /\ id \in DOMAIN store
          /\ store[id].health > before[id].health =>
                (Applied /\ call.op = "revive" /\ call.petId = id)
          /\ TooWeakForAdult(before, id) => TooWeakForAdult(store, id)
          /\ ~before[id].isAlive => store[id].health < 80

\* A Teen that died and was revived is fed until it is old enough and happy
\* enough for Adult: its health is 50 and it stays a Teen.
C28_Witness ==
    /\ Applied /\ call.op \in {"feed", "play"}
    /\ SurvivedDeath \in Range(Old.earnedAchievements)
    /\ Old.stage = Teen /\ AgeNow >= 144 /\ New.happiness >= 60
    /\ New.isAlive /\ New.health = 50
    /\ New.stage = Teen

\* C29: when a sweep settles the flag is down and nothing is in flight; the
\* flag is up only while a sweep is in flight; a tick that finds the tab
\* visible and the flag down starts a sweep, and one that finds the flag up
\* (the sweep has not settled) starts none and leaves the flag up; and, as
\* every sweep settles, a raised flag is always lowered again.
C29_FlagFollowsSweep ==
    /\ [](/\ hook.last = "settle" => (~hook.isRunning /\ hook.inFlight = 0)
          /\ hook.isRunning => hook.inFlight > 0
          /\ (hook.last = "tick" /\ ~hook.saw.hidden /\ ~hook.saw.running) =>
                (hook.started /\ hook.isRunning)
          /\ (hook.last = "tick" /\ hook.saw.running) =>
                (~hook.started /\ hook.isRunning
                   /\ hook.inFlight = hook.saw.inFlight))
    /\ hook.isRunning ~> ~hook.isRunning

\* The first sweep has settled and the interval fires with the tab visible: a
\* new sweep is started.
C29_Witness ==
    /\ hook.last = "tick" /\ ~hook.saw.hidden /\ ~hook.saw.running
    /\ hook.hasRunOnce
    /\ hook.started /\ hook.isRunning /\ hook.inFlight = 1

\* The icons both of whose cards are marked matched, and the cards that are
\* face up without being matched.
MatchedIcons ==
    { icon \in Icons :
        \A i \in DOMAIN mem.cards : mem.cards[i].icon = icon => mem.cards[i].isMatched }

FaceUpUnmatched ==
    { i \in DOMAIN mem.cards : mem.cards[i].isFlipped /\ ~mem.cards[i].isMatched }

\* C30: in MemoryGame matchedPairs is the number of same-icon pairs marked
\* matched in the current deck, at most two unmatched cards are face up,
\* onGameWin is called only when every card of the current deck is matched,
\* and a match timer marks cards only of the deck it was started on.
C30_MatchedPairsCountsDeck ==
    /\ mem.matchedPairs = Cardinality(MatchedIcons)
    /\ \A i \in DOMAIN mem.cards :
          mem.cards[i].isMatched =>
              \E j \in DOMAIN mem.cards :
                  j # i /\ mem.cards[j].isMatched /\ mem.cards[j].icon = mem.cards[i].icon
    /\ Cardinality(FaceUpUnmatched) <= 2
    /\ mem.last = "report" => mem.wonAtReport
    /\ mem.last = "match" => mem.dealOfTimer = mem.deals

====
